---- MODULE Spec2Model ----
(***************************************************************************)
(* A model of the colorcss library (lib/colorcss): the RGB, HSL and HWB    *)
(* colour objects, their conversions, channel operations, blend,           *)
(* apply_alpha, the filters and the CSS parser.                            *)
(*                                                                         *)
(* Channel values are Python floats in the code.  They are modelled as     *)
(* exact rationals <<n, d>> in lowest terms with d > 0, so that equalities *)
(* between channel values are equalities of the numbers and not of their   *)
(* roundings.  A call that raises leaves the name of the exception in the  *)
(* variable err.                                                           *)
(***************************************************************************)
EXTENDS Integers, Sequences, FiniteSets, TLC

(***************************************************************************)
(* Exact rational arithmetic standing for Python's float arithmetic.       *)
(***************************************************************************)
AbsInt(n) == IF n < 0 THEN -n ELSE n

RECURSIVE Gcd(_, _)
Gcd(a, b) == IF b = 0 THEN a ELSE Gcd(b, a % b)

\* The rational n/d in lowest terms with a positive denominator (d # 0).
Q(n, d) ==
    LET g == Gcd(AbsInt(n), AbsInt(d))
        s == IF d < 0 THEN -1 ELSE 1
    IN  <<(s * n) \div g, (s * d) \div g>>

Lcm(a, b) == (a \div Gcd(a, b)) * b

QAdd(x, y) ==
    LET m == Lcm(x[2], y[2])
    IN  Q(x[1] * (m \div x[2]) + y[1] * (m \div y[2]), m)

QNeg(x) == <<-x[1], x[2]>>

QSub(x, y) == QAdd(x, QNeg(y))

QMul(x, y) ==
    LET g1 == Gcd(AbsInt(x[1]), y[2])
        g2 == Gcd(AbsInt(y[1]), x[2])
    IN  Q((x[1] \div g1) * (y[1] \div g2), (x[2] \div g2) * (y[2] \div g1))

\* x / y for y # 0 (the callers test for zero, as Python's division does).
QDiv(x, y) == QMul(x, Q(y[2], y[1]))

QLt(x, y) ==
    LET m == Lcm(x[2], y[2]) IN x[1] * (m \div x[2]) < y[1] * (m \div y[2])

QLe(x, y) ==
    LET m == Lcm(x[2], y[2]) IN x[1] * (m \div x[2]) <= y[1] * (m \div y[2])

QAbs(x) == <<AbsInt(x[1]), x[2]>>

\* Python's min(a, b) and max(a, b): the first argument unless the second
\* is strictly smaller (larger).
QMin(a, b) == IF QLt(b, a) THEN b ELSE a

QMax(a, b) == IF QLt(a, b) THEN b ELSE a

\* floor(x) as an integer.
QFloor(x) == x[1] \div x[2]

\* Python's x % 1.0: the fractional part, in [0, 1).
QMod1(x) == Q(x[1] % x[2], x[2])

Zero == <<0, 1>>
One == <<1, 1>>
Half == <<1, 2>>

QInt(n) == <<n, 1>>

InUnit(x) == QLe(Zero, x) /\ QLe(x, One)

(***************************************************************************)
(* The names bound at module level in each module.  A function body that   *)
(* reads a global name its module does not bind raises NameError when the  *)
(* read is executed.                                                       *)
(***************************************************************************)
BaseNames == {"util", "_ColorBase"}

InitNames ==
    {"_RGB", "_HSL", "_HWB", "util", "__all__", "CS_RGB", "CS_HSL", "CS_HWB",
     "OP_NULL", "OP_SCALE", "OP_ADD", "OP_SUB", "_ColorUtil", "RGB", "HSL",
     "HWB", "css_color"}

(***************************************************************************)
(* util.py: constants and numeric helpers.                                 *)
(***************************************************************************)
RGB_CHANNEL_SCALE == Q(1, 255)
HUE_SCALE == Q(1, 360)
SCALE_PERCENT == Q(1, 100)

CS_RGB == 0
CS_HSL == 1
CS_HWB == 2

OP_NULL == 0
OP_SCALE == 1
OP_ADD == 2
OP_SUB == 3

\* A clamp that leaves out the upper bound.
clamp_no_upper(value, mn, mx) == QMax(value, mn)

clamp(value, mn, mx) == QMax(QMin(value, mx), mn)

\* decimal.ROUND_HALF_DOWN to an integer: to the nearest integer, a tie
\* going towards zero.
round_int(dec) ==
    LET a == QAbs(dec)
        f == QFloor(a)
        r == IF QLt(Half, QSub(a, QInt(f))) THEN f + 1 ELSE f
    IN  IF dec[1] < 0 THEN -r ELSE r

(***************************************************************************)
(* Results of calls that may raise: err is "" for a normal return and the  *)
(* exception's class name otherwise.                                       *)
(***************************************************************************)
Ok(v) == [err |-> "", val |-> v]

Raise(e) == [err |-> e, val |-> <<>>]

Max3(r, g, b) == QMax(QMax(r, g), b)

Min3(r, g, b) == QMin(QMin(r, g), b)

(***************************************************************************)
(* The colorsys functions util.py imports.                                 *)
(***************************************************************************)
\* h = bc-gc, 2.0+rc-bc or 4.0+gc-rc, then (h/6.0) % 1.0.
colorsys_h(r, g, maxc, rc, gc, bc) ==
    QMod1(QDiv(IF r = maxc THEN QSub(bc, gc)
               ELSE IF g = maxc THEN QSub(QAdd(QInt(2), rc), bc)
               ELSE QSub(QAdd(QInt(4), gc), rc),
               QInt(6)))

\* rc, gc and bc, from maxc and rangec.
colorsys_rc(r, g, b, maxc, rangec) ==
    colorsys_h(r, g, maxc,
               QDiv(QSub(maxc, r), rangec),
               QDiv(QSub(maxc, g), rangec),
               QDiv(QSub(maxc, b), rangec))

\* The hue computation shared by rgb_to_hls and rgb_to_hsv (maxc # minc).
colorsys_hue(r, g, b, maxc, minc) ==
    colorsys_rc(r, g, b, maxc, QSub(maxc, minc))

\* s of rgb_to_hls.
colorsys_s(maxc, minc, l) ==
    IF QLe(l, Half) THEN QDiv(QSub(maxc, minc), QAdd(maxc, minc))
    ELSE QDiv(QSub(maxc, minc), QSub(QSub(QInt(2), maxc), minc))

\* rgb_to_hls after maxc, minc and l are computed.
rgb_to_hls_l(r, g, b, maxc, minc, l) ==
    IF minc = maxc THEN <<Zero, l, Zero>>
    ELSE <<colorsys_hue(r, g, b, maxc, minc), l, colorsys_s(maxc, minc, l)>>

rgb_to_hls_m(r, g, b, maxc, minc) ==
    rgb_to_hls_l(r, g, b, maxc, minc, QDiv(QAdd(maxc, minc), QInt(2)))

\* Returns <<h, l, s>>.
rgb_to_hls(r, g, b) == rgb_to_hls_m(r, g, b, Max3(r, g, b), Min3(r, g, b))

\* _v after hue = hue % 1.0
colorsys_v_hue(m1, m2, hue) ==
    IF QLt(hue, Q(1, 6))
    THEN QAdd(m1, QMul(QMul(QSub(m2, m1), hue), QInt(6)))
    ELSE IF QLt(hue, Half) THEN m2
    ELSE IF QLt(hue, Q(2, 3))
    THEN QAdd(m1, QMul(QMul(QSub(m2, m1), QSub(Q(2, 3), hue)), QInt(6)))
    ELSE m1

colorsys_v(m1, m2, hue0) == colorsys_v_hue(m1, m2, QMod1(hue0))

\* hls_to_rgb after m1 and m2 are computed.
hls_to_rgb_m1(h, m1, m2) ==
    <<colorsys_v(m1, m2, QAdd(h, Q(1, 3))),
      colorsys_v(m1, m2, h),
      colorsys_v(m1, m2, QSub(h, Q(1, 3)))>>

hls_to_rgb_m2(h, l, m2) == hls_to_rgb_m1(h, QSub(QMul(QInt(2), l), m2), m2)

\* Returns <<r, g, b>>.
hls_to_rgb(h, l, s) ==
    IF s = Zero THEN <<l, l, l>>
    ELSE hls_to_rgb_m2(h, l, IF QLe(l, Half) THEN QMul(l, QAdd(One, s))
                             ELSE QSub(QAdd(l, s), QMul(l, s)))

rgb_to_hsv_m(r, g, b, maxc, minc) ==
    IF minc = maxc THEN <<Zero, Zero, maxc>>
    ELSE <<colorsys_hue(r, g, b, maxc, minc), QDiv(QSub(maxc, minc), maxc), maxc>>

\* Returns <<h, s, v>>.
rgb_to_hsv(r, g, b) == rgb_to_hsv_m(r, g, b, Max3(r, g, b), Min3(r, g, b))

\* The six returns of hsv_to_rgb, by i % 6.
hsv_to_rgb_i(v, i, p, q, t) ==
    CASE i = 0 -> <<v, t, p>>
      [] i = 1 -> <<q, v, p>>
      [] i = 2 -> <<p, v, t>>
      [] i = 3 -> <<p, q, v>>
      [] i = 4 -> <<t, p, v>>
      [] OTHER -> <<v, p, q>>

\* hsv_to_rgb after i = int(h*6.0) and f are computed.
hsv_to_rgb_f(s, v, i, f) ==
    hsv_to_rgb_i(v, i % 6,
                 QMul(v, QSub(One, s)),
                 QMul(v, QSub(One, QMul(s, f))),
                 QMul(v, QSub(One, QMul(s, QSub(One, f)))))

hsv_to_rgb_h6(s, v, h6, i) == hsv_to_rgb_f(s, v, i, QSub(h6, QInt(i)))

\* Returns <<r, g, b>>.
hsv_to_rgb(h, s, v) ==
    IF s = Zero THEN <<v, v, v>>
    ELSE hsv_to_rgb_h6(s, v, QMul(h, QInt(6)), QFloor(QMul(h, QInt(6))))

(***************************************************************************)
(* util.py: the conversions between the colour spaces.  Each takes the     *)
(* three channels and returns Ok(<<c1, c2, c3>>) or Raise(exception).      *)
(***************************************************************************)
\* A call whose argument raised raises the same; otherwise F of the value.
Then(r, F(_)) == IF r.err # "" THEN r ELSE F(r.val)

hls_to_hsl(hls) == <<hls[1], hls[3], hls[2]>>

rgb_to_hsl(r, g, b) == Ok(hls_to_hsl(rgb_to_hls(r, g, b)))

hsl_to_rgb(h, s, l) == Ok(hls_to_rgb(h, l, s))

clamp_rgb(rgb) ==
    <<clamp(rgb[1], Zero, One), clamp(rgb[2], Zero, One), clamp(rgb[3], Zero, One)>>

\* hwb_to_rgb after w and b are normalised: 1.0 - b divides.
hwb_to_rgb_norm(h, w, b) ==
    IF QSub(One, b) = Zero THEN Raise("ZeroDivisionError")
    ELSE Ok(clamp_rgb(hsv_to_rgb(h, QSub(One, QDiv(w, QSub(One, b))), QSub(One, b))))

hwb_to_rgb(h, w, b) ==
    IF QLt(One, QAdd(w, b))
    THEN hwb_to_rgb_norm(h, QMul(w, QDiv(One, QAdd(w, b))),
                            QMul(b, QDiv(One, QAdd(w, b))))
    ELSE hwb_to_rgb_norm(h, w, b)

hsv_to_hwb(hsv) == <<hsv[1], QMul(QSub(One, hsv[2]), hsv[3]), QSub(One, hsv[3])>>

rgb_to_hwb(r, g, b) == Ok(hsv_to_hwb(rgb_to_hsv(r, g, b)))

hsl_to_hwb(h, s, l) ==
    Then(hsl_to_rgb(h, s, l), LAMBDA rgb : rgb_to_hwb(rgb[1], rgb[2], rgb[3]))

\* As written in util.py: the RGB triple is handed to rgb_to_hwb.
hwb_to_hsl(h, w, b) ==
    Then(hwb_to_rgb(h, w, b), LAMBDA rgb : rgb_to_hwb(rgb[1], rgb[2], rgb[3]))

(***************************************************************************)
(* CSS texts.  A text is modelled by its structure, which is all the       *)
(* grammars and the channel splitter look at:                              *)
(*   [kind |-> "func", name, sep, toks]  name(t1 t2 t3 / t4) when sep is   *)
(*       "space" and name(t1, t2, t3, t4) when it is "comma", with three   *)
(*       or four tokens; names are written in lower case;                  *)
(*   [kind |-> "hex", digits]            # followed by the hex digits;     *)
(*   [kind |-> "word", w]                a bare word.                      *)
(* A token is [k, v, unit]: a number v ("num"), v% ("percent") or v with   *)
(* an angle unit ("angle", unit one of deg, rad, turn, grad).              *)
(***************************************************************************)
Num(v) == [k |-> "num", v |-> v, unit |-> ""]

Pct(v) == [k |-> "percent", v |-> v, unit |-> ""]

Ang(v, u) == [k |-> "angle", v |-> v, unit |-> u]

Func(name, sep, toks) == [kind |-> "func", name |-> name, sep |-> sep, toks |-> toks]

Hex(digits) == [kind |-> "hex", digits |-> digits]

Word(w) == [kind |-> "word", w |-> w]

\* COLOR_PARTS: which tokens the float, percent and angle patterns accept.
IsFloatTok(t) == t.k = "num"

IsPercentTok(t) == t.k = "percent"

IsAngleTok(t) == t.k \in {"num", "angle"}

IsAlphaTok(t) == t.k \in {"num", "percent"}

\* None, returned in place of a channel list and in place of a text.
None == <<>>

NoText == [kind |-> "none"]

\* util.norm_perc_channel .. util.norm_hue_channel, on a token: Ok(value)
\* or Raise.
norm_perc_channel(t) == Ok(QMul(clamp(t.v, Zero, QInt(100)), SCALE_PERCENT))

norm_rgb_channel(t) ==
    IF t.k = "percent" THEN norm_perc_channel(t)
    ELSE Ok(QMul(clamp(t.v, Zero, QInt(255)), RGB_CHANNEL_SCALE))

norm_alpha_channel(t) ==
    IF t.k = "percent" THEN norm_perc_channel(t)
    ELSE Ok(clamp(t.v, Zero, One))

\* CONVERT_TURN is 360 and CONVERT_GRAD is 90 / 100.  The rad branch calls
\* math.degrees, and util.py does not import math: the read of the name
\* math raises NameError.
norm_angle(t) ==
    CASE t.unit = "turn" -> Ok(QMul(t.v, QInt(360)))
      [] t.unit = "grad" -> Ok(QMul(t.v, Q(90, 100)))
      [] t.unit = "rad" -> Raise("NameError")
      [] OTHER -> Ok(t.v)

norm_hue_channel(t) ==
    LET a == norm_angle(t)
    IN  IF a.err # "" THEN a
        ELSE Ok(QMul(clamp(a.val, Zero, QInt(360)), HUE_SCALE))

\* The loop of _split_channels: token i is normalised by norm(i, token);
\* a missing fourth channel is 1.0.  The first exception raised wins.
SplitWith(toks, norm(_, _)) ==
    LET res == [i \in 1..Len(toks) |-> norm(i, toks[i])]
        bad == {i \in 1..Len(toks) : res[i].err # ""}
        vals == [i \in 1..Len(toks) |-> res[i].val]
    IN  IF bad # {}
        THEN res[CHOOSE i \in bad : \A j \in bad : i <= j]
        ELSE Ok(IF Len(toks) = 3 THEN Append(vals, One) ELSE vals)

(***************************************************************************)
(* rgb.py                                                                  *)
(***************************************************************************)
\* _RGB.CSS_MATCH
RGB_CSS_MATCH(text) ==
    \/ /\ text.kind = "func"
       /\ text.name \in {"rgb", "rgba"}
       /\ Len(text.toks) \in {3, 4}
       /\ \/ \A i \in 1..3 : IsFloatTok(text.toks[i])
          \/ \A i \in 1..3 : IsPercentTok(text.toks[i])
       /\ Len(text.toks) = 4 => IsAlphaTok(text.toks[4])
    \/ /\ text.kind = "hex"
       /\ Len(text.digits) \in {3, 4, 6, 8}

\* _RGB.HEX_MATCH: the pattern has no capturing group.
HEX_MATCH_groups == 0

\* _RGB._split_channels.  In the hex branch m.group(1) is evaluated first:
\* re raises IndexError for a group the pattern does not have.
RGB_split_channels(text) ==
    IF text.kind = "func" /\ text.name \in {"rgb", "rgba"}
    THEN SplitWith(text.toks,
                   LAMBDA i, t : IF i = 4 THEN norm_alpha_channel(t)
                                 ELSE norm_rgb_channel(t))
    ELSE IF text.kind # "hex" THEN Raise("AssertionError")
    ELSE IF HEX_MATCH_groups < 1 THEN Raise("IndexError")
    ELSE LET d == text.digits
             byte(i) == QMul(QInt(16 * d[i] + d[i + 1]), RGB_CHANNEL_SCALE)
             twice(i) == QMul(QInt(17 * d[i]), RGB_CHANNEL_SCALE)
         IN  IF Len(d) >= 6
             THEN Ok(<<byte(1), byte(3), byte(5),
                       IF Len(d) = 8 THEN byte(7) ELSE One>>)
             ELSE Ok(<<twice(1), twice(2), twice(3),
                       IF Len(d) = 4 THEN twice(4) ELSE One>>)

\* css_names.name2hex: the table of CSS colour names, of which the model
\* keeps three; a text that is no name of the table gives None (NoText).
name2hex(text) ==
    IF text.kind # "word" THEN NoText
    ELSE CASE text.w = "red" -> Hex(<<15, 15, 0, 0, 0, 0>>)
           [] text.w = "black" -> Hex(<<0, 0, 0, 0, 0, 0>>)
           [] text.w = "white" -> Hex(<<15, 15, 15, 15, 15, 15>>)
           [] OTHER -> NoText

\* _RGB.css_match
RGB_css_match(text) ==
    IF RGB_CSS_MATCH(text) THEN RGB_split_channels(text)
    ELSE LET string == name2hex(text)
         IN  IF string.kind # "none" THEN RGB_split_channels(string)
             ELSE Ok(None)

(***************************************************************************)
(* hsl.py and hwb.py                                                       *)
(***************************************************************************)
\* The argument grammar _HSL.CSS_MATCH and _HWB.CSS_MATCH share.
HueGrammar(text) ==
    /\ Len(text.toks) \in {3, 4}
    /\ IsAngleTok(text.toks[1])
    /\ IsPercentTok(text.toks[2])
    /\ IsPercentTok(text.toks[3])
    /\ Len(text.toks) = 4 => IsAlphaTok(text.toks[4])

HSL_CSS_MATCH(text) ==
    text.kind = "func" /\ text.name \in {"hsl", "hsla"} /\ HueGrammar(text)

HueSplit(text) ==
    SplitWith(text.toks,
              LAMBDA i, t : IF i = 1 THEN norm_hue_channel(t)
                            ELSE IF i = 4 THEN norm_alpha_channel(t)
                            ELSE norm_perc_channel(t))

HSL_split_channels(text) == HueSplit(text)

HSL_css_match(text) ==
    IF HSL_CSS_MATCH(text) THEN HSL_split_channels(text) ELSE Ok(None)

\* _HWB.CSS_MATCH begins ^hwb?\( and so accepts hw( as well.
HWB_CSS_MATCH(text) ==
    text.kind = "func" /\ text.name \in {"hw", "hwb"} /\ HueGrammar(text)

\* The channels are split from the fifth character on, which is where they
\* begin in a text written hwb( (the texts explored are written that way).
HWB_split_channels(text) == HueSplit(text)

HWB_css_match(text) ==
    IF HWB_CSS_MATCH(text) THEN HWB_split_channels(text) ELSE Ok(None)

\* DEF_BG of each class: "rgb(0 0 0 / 1)", "hsl(0 0% 0% / 1.0)" and
\* "hwb(0 0% 0% / 1.0)".
RGB_DEF_BG == Func("rgb", "space", <<Num(Zero), Num(Zero), Num(Zero), Num(One)>>)

HSL_DEF_BG == Func("hsl", "space", <<Num(Zero), Pct(Zero), Pct(Zero), Num(One)>>)

HWB_DEF_BG == Func("hwb", "space", <<Num(Zero), Pct(Zero), Pct(Zero), Num(One)>>)

(***************************************************************************)
(* Colour objects.  An object of class cls ("RGB", "HSL", "HWB") holds     *)
(* _c1, _c2, _c3 and the alpha _c0 (here a).  ints is the set of primary   *)
(* channels that hold a Python int instead of a float: the clamp of the    *)
(* setters returns its argument, so the ints 0 and 1 are stored as ints    *)
(* (grayscale stores its integer luminance), and invert's ^= works on an   *)
(* int and raises TypeError on a float.                                    *)
(***************************************************************************)
Classes == {"RGB", "HSL", "HWB"}

Color(cls, c1, c2, c3, a) ==
    [cls |-> cls, c1 |-> c1, c2 |-> c2, c3 |-> c3, a |-> a, ints |-> {}]

Chan(c, i) == CASE i = 1 -> c.c1 [] i = 2 -> c.c2 [] i = 3 -> c.c3 [] OTHER -> c.a

Channels(c) == <<c.c1, c.c2, c.c3, c.a>>

\* The class an isinstance test stands for.
isinstance(c, cls) == c.cls = cls

\* The @a.setter of _ColorBase.
set_a(c, value) == [c EXCEPT !.a = clamp(value, Zero, One)]

\* The setters of the primary channels (r, g, b; h, s, l; h, w, b), with a
\* float value: each is self._ci = util.clamp(value, 0.0, 1.0).
set_c(c, i, value) ==
    LET v == clamp(value, Zero, One)
    IN  CASE i = 1 -> [c EXCEPT !.c1 = v, !.ints = @ \ {1}]
          [] i = 2 -> [c EXCEPT !.c2 = v, !.ints = @ \ {2}]
          [] i = 3 -> [c EXCEPT !.c3 = v, !.ints = @ \ {3}]
          [] OTHER -> set_a(c, value)

\* The same setters with an int value n: the clamp returns n itself, an
\* int, when n is 0 or 1, and the float bound otherwise.
set_c_int(c, i, n) ==
    LET v == clamp(QInt(n), Zero, One)
        kept == IF n \in {0, 1} THEN {i} ELSE {}
    IN  CASE i = 1 -> [c EXCEPT !.c1 = v, !.ints = (@ \ {1}) \cup kept]
          [] i = 2 -> [c EXCEPT !.c2 = v, !.ints = (@ \ {2}) \cup kept]
          [] OTHER -> [c EXCEPT !.c3 = v, !.ints = (@ \ {3}) \cup kept]

\* The conversion function an __init__ calls for a colour of another class.
Convert(from, to, c1, c2, c3) ==
    CASE from = "HSL" /\ to = "RGB" -> hsl_to_rgb(c1, c2, c3)
      [] from = "HWB" /\ to = "RGB" -> hwb_to_rgb(c1, c2, c3)
      [] from = "RGB" /\ to = "HSL" -> rgb_to_hsl(c1, c2, c3)
      [] from = "HWB" /\ to = "HSL" -> hwb_to_hsl(c1, c2, c3)
      [] from = "RGB" /\ to = "HWB" -> rgb_to_hwb(c1, c2, c3)
      [] from = "HSL" /\ to = "HWB" -> hsl_to_hwb(c1, c2, c3)
      [] OTHER -> Ok(<<c1, c2, c3>>)

\* The object an __init__ builds from the converted channels and the alpha
\* of its argument: every channel goes through its setter.
FromChannels(cls, t, a) ==
    set_a(set_c(set_c(set_c(Color(cls, Zero, Zero, Zero, Zero), 1, t[1]), 2, t[2]),
                3, t[3]),
          a)

\* RGB(color), HSL(color), HWB(color) for a colour object: a copy through
\* the setters for a colour of the same class, a conversion otherwise.
New(cls, color) ==
    IF isinstance(color, cls)
    THEN Ok([cls |-> cls,
             c1 |-> clamp(color.c1, Zero, One),
             c2 |-> clamp(color.c2, Zero, One),
             c3 |-> clamp(color.c3, Zero, One),
             a |-> clamp(color.a, Zero, One),
             ints |-> color.ints])
    ELSE Then(Convert(color.cls, cls, color.c1, color.c2, color.c3),
              LAMBDA t : Ok(FromChannels(cls, t, color.a)))

css_match(cls, text) ==
    CASE cls = "RGB" -> RGB_css_match(text)
      [] cls = "HSL" -> HSL_css_match(text)
      [] OTHER -> HWB_css_match(text)

\* The list branch of __init__: three or four float values.
NewFromList(cls, values) ==
    IF ~(3 <= Len(values) /\ Len(values) <= 4) THEN Raise("ValueError")
    ELSE Ok(Color(cls,
                  clamp(values[1], Zero, One),
                  clamp(values[2], Zero, One),
                  clamp(values[3], Zero, One),
                  IF Len(values) = 3 THEN One ELSE clamp(values[4], Zero, One)))

\* The str branch of __init__.
NewFromText(cls, text) ==
    Then(css_match(cls, text),
         LAMBDA values : IF values = None THEN Raise("ValueError")
                         ELSE NewFromList(cls, values))

DEF_BG(cls) ==
    CASE cls = "RGB" -> RGB_DEF_BG
      [] cls = "HSL" -> HSL_DEF_BG
      [] OTHER -> HWB_DEF_BG

\* The three attempts of css_color, in order: cls(css_match) when the match
\* is not None, the next attempt otherwise.
css_color_hwb(string) ==
    Then(css_match("HWB", string),
         LAMBDA hwb : IF hwb # None THEN NewFromList("HWB", hwb)
                      ELSE Raise("ValueError"))

css_color_hsl(string) ==
    Then(css_match("HSL", string),
         LAMBDA hsl : IF hsl # None THEN NewFromList("HSL", hsl)
                      ELSE css_color_hwb(string))

css_color(string) ==
    Then(css_match("RGB", string),
         LAMBDA rgb : IF rgb # None THEN NewFromList("RGB", rgb)
                      ELSE css_color_hsl(string))

(***************************************************************************)
(* base.py: update_from, apply_alpha and alpha, as functions of the        *)
(* colour values.  Each returns Ok(the new value of self) or Raise.        *)
(***************************************************************************)
\* The four assignments that end update_from.
update_from_copy(self, obj) ==
    set_a([self EXCEPT !.c1 = obj.c1, !.c2 = obj.c2, !.c3 = obj.c3,
                       !.ints = obj.ints],
          obj.a)

\* same: obj is self (the identity test of the first line).
update_from(self, obj0, same) ==
    IF same THEN Ok(self)
    ELSE Then(IF ~isinstance(obj0, self.cls) THEN New(self.cls, obj0) ELSE Ok(obj0),
              LAMBDA obj : Ok(update_from_copy(self, obj)))

mix_channel(cf, af, cb, ab) ==
    clamp(QAbs(QAdd(QMul(cf, af), QMul(QMul(cb, ab), QSub(One, af)))), Zero, One)

\* The background argument None.
NoColor == [cls |-> "None"]

\* The body of apply_alpha's if self.a < 1.0.
apply_alpha_mix(self, background) ==
    IF QLt(self.a, One)
    THEN set_a([self EXCEPT
                  !.c1 = mix_channel(self.c1, self.a, background.c1, background.a),
                  !.c2 = mix_channel(self.c2, self.a, background.c2, background.a),
                  !.c3 = mix_channel(self.c3, self.a, background.c3, background.a),
                  !.ints = {}],
               One)
    ELSE self

apply_alpha(self, background0) ==
    Then(IF background0.cls = "None" THEN NewFromText(self.cls, DEF_BG(self.cls))
         ELSE IF ~isinstance(background0, self.cls) THEN New(self.cls, background0)
         ELSE Ok(background0),
         LAMBDA background : Ok(apply_alpha_mix(self, background)))

\* The arithmetic of a channel mutator: the new value handed to the setter.
ChannelValue(c, factor, op) ==
    CASE op = OP_SCALE -> QSub(QAdd(c, factor), One)
      [] op = OP_ADD -> QAdd(c, QMul(c, factor))
      [] op = OP_SUB -> QSub(c, QMul(c, factor))
      [] OTHER -> factor

\* _ColorBase.alpha: its body reads OP_SCALE, OP_ADD and OP_SUB as globals
\* of base.py.
alpha(self, factor, op) ==
    IF "OP_SCALE" \notin BaseNames THEN Raise("NameError")
    ELSE Ok(set_a(self, ChannelValue(self.a, factor, op)))

(***************************************************************************)
(* rgb.py, hsl.py, hwb.py: the channel mutators.                           *)
(***************************************************************************)
\* red, green, blue (i = 1, 2, 3 of an RGB), saturation, lightness (i = 2,
\* 3 of an HSL), whiteness, blackness (i = 2, 3 of an HWB).
channel_op(self, i, factor, op) ==
    Ok(set_c(self, i, ChannelValue(Chan(self, i), factor, op)))

RECURSIVE WrapDown(_)
WrapDown(h) == IF QLt(One, h) THEN WrapDown(QSub(h, One)) ELSE h

RECURSIVE WrapUp(_)
WrapUp(h) == IF QLt(h, Zero) THEN WrapUp(QAdd(h, One)) ELSE h

\* The wrap with an if in place of each while.
hue_value_once(h0, deg) ==
    IF QLt(One, QAdd(h0, QMul(deg, HUE_SCALE)))
    THEN QSub(QAdd(h0, QMul(deg, HUE_SCALE)), One)
    ELSE IF QLt(QAdd(h0, QMul(deg, HUE_SCALE)), Zero)
    THEN QAdd(QAdd(h0, QMul(deg, HUE_SCALE)), One)
    ELSE QAdd(h0, QMul(deg, HUE_SCALE))

\* The value hue computes and returns: h after the two while loops.
hue_value(h0, deg) == WrapUp(WrapDown(QAdd(h0, QMul(deg, HUE_SCALE))))

\* _HSL.hue and _HWB.hue
hue(self, deg) == Ok(set_c(self, 1, hue_value(self.c1, deg)))

(***************************************************************************)
(* __init__.py: _ColorUtil.  Each operation returns Ok(the new value of    *)
(* self) or Raise; self is unchanged when an operation raises before its   *)
(* final update_from.                                                      *)
(***************************************************************************)
\* The weighted sum get_luminance rounds.
luminance_sum(rgb) ==
    QAdd(QAdd(QMul(Q(299, 1000), QMul(rgb.c1, QInt(255))),
              QMul(Q(587, 1000), QMul(rgb.c2, QInt(255)))),
         QMul(Q(114, 1000), QMul(rgb.c3, QInt(255))))

clamp_int(n, mn, mx) == IF n > mx THEN mx ELSE IF n < mn THEN mn ELSE n

\* Ok(the integer luminance, 0..255) or Raise.
get_luminance(self) ==
    Then(New("RGB", self),
         LAMBDA rgb : Ok(clamp_int(round_int(luminance_sum(rgb)), 0, 255)))

colorize(self, deg) ==
    Then(New("HSL", self),
         LAMBDA hsl : update_from(self, set_c(hsl, 1, QMul(deg, HUE_SCALE)), FALSE))

\* The factor of contrast's second statement, from the scaled factor f0.
contrast_factor(f0) ==
    QDiv(QMul(QInt(259), QAdd(f0, QInt(255))), QMul(QInt(255), QSub(QInt(259), f0)))

\* One channel statement of contrast.
contrast_channel(rgb, i, f) ==
    set_c(rgb, i,
          QMul(clamp(QAdd(QMul(f, QSub(QMul(Chan(rgb, i), QInt(255)), QInt(128))),
                          QInt(128)),
                     Zero, QInt(255)),
               RGB_CHANNEL_SCALE))

contrast_channels(rgb, f) ==
    contrast_channel(contrast_channel(contrast_channel(rgb, 1, f), 2, f), 3, f)

\* contrast reads clamp as a global of __init__.py, after rgb = RGB(self).
contrast(self, factor) ==
    Then(New("RGB", self),
         LAMBDA rgb :
            IF "clamp" \notin InitNames THEN Raise("NameError")
            ELSE update_from(self,
                             contrast_channels(rgb,
                                 contrast_factor(QMul(QSub(clamp(factor, Zero, QInt(2)),
                                                           One),
                                                      QInt(255)))),
                             FALSE))

\* rgb.r ^= 0xFF on channel i of rgb: TypeError for a float; for an int n
\* (0 or 1) n ^ 0xFF is 255 - n, handed to the setter.
InvertChannel(rgb, i) ==
    IF i \notin rgb.ints THEN Raise("TypeError")
    ELSE Ok(set_c_int(rgb, i, 255 - Chan(rgb, i)[1]))

invert(self) ==
    Then(New("RGB", self), LAMBDA rgb :
    Then(InvertChannel(rgb, 1), LAMBDA r1 :
    Then(InvertChannel(r1, 2), LAMBDA r2 :
    Then(InvertChannel(r2, 3), LAMBDA r3 :
    update_from(self, r3, FALSE)))))

\* The three assignments of grayscale.
grayscale_channels(rgb, luminance) ==
    set_c_int(set_c_int(set_c_int(rgb, 1, luminance), 2, luminance), 3, luminance)

grayscale(self) ==
    Then(New("RGB", self), LAMBDA rgb :
    Then(get_luminance(self), LAMBDA luminance :
    update_from(self, grayscale_channels(rgb, luminance), FALSE)))

\* One line of sepia: channel i becomes the weighted sum of the channels
\* rgb has when the line runs.
sepia_channel(rgb, i, kr, kg, kb) ==
    set_c(rgb, i,
          QAdd(QAdd(QMul(rgb.c1, Q(kr, 1000)), QMul(rgb.c2, Q(kg, 1000))),
               QMul(rgb.c3, Q(kb, 1000))))

\* Each line of sepia reads the channels the lines before it have set.
sepia_channels(rgb) ==
    sepia_channel(sepia_channel(sepia_channel(rgb, 1, 393, 769, 189),
                                2, 349, 686, 168),
                  3, 272, 534, 131)

sepia(self) ==
    Then(New("RGB", self), LAMBDA rgb : update_from(self, sepia_channels(rgb), FALSE))

\* _get_overage: <<o, c>>.
get_overage(c) ==
    IF QLt(c, Zero) THEN <<QAdd(Zero, c), Zero>>
    ELSE IF QLt(QInt(255), c) THEN <<QSub(c, QInt(255)), QInt(255)>>
    ELSE <<Zero, c>>

\* The branches of _distribute_overage for a pool s that is not empty.
distribute_parts(c, parts, s) ==
    IF "r" \in s /\ "g" \in s THEN <<QAdd(c[1], parts), QAdd(c[2], parts), c[3]>>
    ELSE IF "r" \in s /\ "b" \in s THEN <<QAdd(c[1], parts), c[2], QAdd(c[3], parts)>>
    ELSE IF "g" \in s /\ "b" \in s THEN <<c[1], QAdd(c[2], parts), QAdd(c[3], parts)>>
    ELSE IF "r" \in s THEN <<QAdd(c[1], parts), c[2], c[3]>>
    ELSE IF "g" \in s THEN <<c[1], QAdd(c[2], parts), c[3]>>
    ELSE <<c[1], c[2], QAdd(c[3], parts)>>

\* _distribute_overage
distribute_overage(c, o, s) ==
    IF Cardinality(s) = 0 THEN c
    ELSE distribute_parts(c, QDiv(o, QInt(Cardinality(s))), s)

\* channels = ["r", "g", "b"]
channels == <<"r", "g", "b">>

\* The body of brightness's for loop after _get_overage has returned oc,
\* on the state st = [components, slots] of the loop.
brightness_overage(st, count, oc) ==
    IF oc[1] # Zero
    THEN [components |->
              distribute_overage([st.components EXCEPT ![count] = oc[2]], oc[1],
                                 st.slots \ {channels[count]}),
          slots |-> st.slots \ {channels[count]}]
    ELSE [components |-> [st.components EXCEPT ![count] = oc[2]],
          slots |-> st.slots]

\* One pass of the for loop, on the channel at count (1, 2, 3 here).
brightness_step(st, count) ==
    brightness_overage(st, count, get_overage(st.components[count]))

\* The for loop, from slots = set(channels).
brightness_loop(components) ==
    brightness_step(brightness_step(brightness_step(
        [components |-> components, slots |-> {"r", "g", "b"}], 1), 2), 3)

\* components, from pts.
brightness_components(rgb, pts) ==
    <<QAdd(rgb.c1, pts), QAdd(rgb.c2, pts), QAdd(rgb.c3, pts)>>

\* rgb.r, rgb.g, rgb.b = the three values.
brightness_set(rgb, c) == set_c(set_c(set_c(rgb, 1, c[1]), 2, c[2]), 3, c[3])

\* total_lumes: get_luminance returns the luminance as an integer of
\* 0..255.
total_lumes(rgb, factor) ==
    clamp(QSub(QAdd(QInt(get_luminance(rgb).val), QMul(One, factor)), One), Zero, One)

\* The if statement of brightness.
brightness_rgb(rgb, total) ==
    IF total = One THEN brightness_set(rgb, <<One, One, One>>)
    ELSE IF total = Zero THEN brightness_set(rgb, <<Zero, Zero, Zero>>)
    ELSE brightness_set(rgb,
             brightness_loop(brightness_components(rgb,
                 QSub(QSub(QSub(total, QMul(Q(299, 1000), rgb.c1)),
                           QMul(Q(587, 1000), rgb.c2)),
                      QMul(Q(114, 1000), rgb.c3)))).components)

\* brightness reads clamp as a global of __init__.py, after rgb = RGB(self)
\* and before anything else of its third statement is evaluated.
brightness(self, factor) ==
    Then(New("RGB", self),
         LAMBDA rgb :
            IF "clamp" \notin InitNames THEN Raise("NameError")
            ELSE update_from(self, brightness_rgb(rgb, total_lumes(rgb, factor)),
                             FALSE))

(***************************************************************************)
(* rgb.py: to_css.  A text is written as the sequence of its characters.   *)
(***************************************************************************)
HexChars ==
    <<"0", "1", "2", "3", "4", "5", "6", "7", "8", "9", "A", "B", "C", "D", "E", "F">>

\* "{:02X}".format(n), for n of 0..255.
format_02X(n) == <<HexChars[(n \div 16) + 1], HexChars[(n % 16) + 1]>>

\* What {hex} matches in RE_COMPRESS: the pattern is compiled as written,
\* without .format(**util.COLOR_PARTS), so the five characters are a
\* literal of the pattern.
hex_group == <<"{", "h", "e", "x", "}">>

\* RE_COMPRESS.match(value): the number of the groups matched (3 or 4), or
\* 0 for no match.
RE_COMPRESS(value) ==
    LET pair == hex_group \o hex_group
    IN  IF value = <<"#">> \o pair \o pair \o pair THEN 3
        ELSE IF value = <<"#">> \o pair \o pair \o pair \o pair THEN 4
        ELSE 0

\* m.expand(r"#\1\2\3") and m.expand(r"#\1\2\3\4"), in terms of the groups
\* expanded.
expand(n) ==
    IF n = 3 THEN <<"#">> \o hex_group \o hex_group \o hex_group
    ELSE <<"#">> \o hex_group \o hex_group \o hex_group \o hex_group

\* The if statement that ends _get_hex (n = 3) and _get_hexa (n = 4).
compress_hex(value, compress, n) ==
    IF compress /\ RE_COMPRESS(value) # 0 THEN expand(n) ELSE value

get_hex(self, compress) ==
    compress_hex(<<"#">> \o format_02X(round_int(QMul(self.c1, QInt(255))))
                         \o format_02X(round_int(QMul(self.c2, QInt(255))))
                         \o format_02X(round_int(QMul(self.c3, QInt(255)))),
                 compress, 3)

get_hexa(self, compress) ==
    compress_hex(<<"#">> \o format_02X(round_int(QMul(self.c1, QInt(255))))
                         \o format_02X(round_int(QMul(self.c2, QInt(255))))
                         \o format_02X(round_int(QMul(self.c3, QInt(255))))
                         \o format_02X(round_int(QMul(self.a, QInt(255)))),
                 compress, 4)

\* css_names.hex2name: the name the table holds for the hex text, or None.
hex2name(h) ==
    CASE h = <<"#", "F", "F", "0", "0", "0", "0">> -> <<"r", "e", "d">>
      [] h = <<"#", "0", "0", "0", "0", "0", "0">> -> <<"b", "l", "a", "c", "k">>
      [] h = <<"#", "F", "F", "F", "F", "F", "F">> -> <<"w", "h", "i", "t", "e">>
      [] OTHER -> None

\* util.fmt_float reads RE_FLOAT_TRIM, a name util.py does not bind (the
\* pattern is bound to RE_FLOAT_TRIM_RE): NameError.
fmt_float(f, p) == Raise("NameError")

\* The functional notation, as the tuple of what the template is filled
\* with: the name ("rgba" in the comma template of _get_rgba), whether commas
\* separate, the three integers and the text of the alpha channel (None in
\* _get_rgb).
rgb_text(self, comma, a_text) ==
    <<IF comma /\ a_text # None THEN "rgba" ELSE "rgb",
      comma,
      round_int(QMul(self.c1, QInt(255))),
      round_int(QMul(self.c2, QInt(255))),
      round_int(QMul(self.c3, QInt(255))),
      a_text>>

get_rgb(self, comma) == Ok(rgb_text(self, comma, None))

get_rgba(self, comma) ==
    Then(fmt_float(self.a, 3), LAMBDA text : Ok(rgb_text(self, comma, text)))

\* to_css after h has been computed: value is h under prefer_hex, the name
\* of h under prefer_name when there is one, else the functional notation.
to_css_value(self, with_alpha, prefer_name, prefer_hex, comma, h) ==
    IF prefer_name /\ hex2name(h) # None THEN Ok(hex2name(h))
    ELSE IF prefer_hex /\ h # <<>> THEN Ok(h)
    ELSE IF with_alpha THEN get_rgba(self, comma)
    ELSE get_rgb(self, comma)

\* _RGB.to_css: h is computed under prefer_hex or prefer_name only, and
\* compress is handed to neither _get_hexa nor _get_hex, whose own default
\* for it is False.
to_css(self, al, prefer_alpha, prefer_name, prefer_hex, compress, comma) ==
    to_css_value(self, al /\ (prefer_alpha \/ QLt(self.a, One)),
                 prefer_name, prefer_hex, comma,
                 IF prefer_hex \/ prefer_name
                 THEN IF al /\ (prefer_alpha \/ QLt(self.a, One))
                      THEN get_hexa(self, FALSE)
                      ELSE get_hex(self, FALSE)
                 ELSE <<>>)

(***************************************************************************)
(* util.py: the channel blends, and __init__.py: blend.                    *)
(***************************************************************************)
rgb_blend_channel(c1, c2, f) ==
    clamp(QAbs(QAdd(QMul(c1, f), QMul(c2, QSub(One, f)))), Zero, One)

percent_blend_channel(c1, c2, f) ==
    clamp(QAbs(QAdd(QMul(c1, f), QMul(c2, QSub(One, f)))), Zero, One)

RECURSIVE WrapDegrees(_)
WrapDegrees(value) ==
    IF QLt(QInt(360), value) THEN WrapDegrees(QSub(value, QInt(360))) ELSE value

\* hue_blend_channel without the step that raises the smaller hue by 360:
\* the blend along the arc that does not cross 0.
hue_blend_channel_direct(c10, c20, f0, workaround) ==
    LET c1 == QMul(c10, QInt(360))
        c2 == QMul(c20, QInt(360))
        f == IF workaround THEN QSub(One, f0) ELSE f0
        value == QAbs(QAdd(QMul(c1, f), QMul(c2, QSub(One, f))))
    IN  QMul(WrapDegrees(value), HUE_SCALE)

\* workaround: util.HSL_WORKAROUND, which is true on a host older than 4069.
hue_blend_channel(c10, c20, f0, workaround) ==
    LET a == QMul(c10, QInt(360))
        b == QMul(c20, QInt(360))
        far == QLt(QInt(180), QAbs(QSub(a, b)))
        c1 == IF far /\ QLt(a, b) THEN QAdd(a, QInt(360)) ELSE a
        c2 == IF far /\ ~QLt(a, b) THEN QAdd(b, QInt(360)) ELSE b
        f == IF workaround THEN QSub(One, f0) ELSE f0
        value == QAbs(QAdd(QMul(c1, f), QMul(c2, QSub(One, f))))
    IN  QMul(WrapDegrees(value), HUE_SCALE)

\* The class a colour-space selector names ("" for no class).
SelectorClass(color_space) ==
    CASE color_space = CS_RGB -> "RGB"
      [] color_space = CS_HSL -> "HSL"
      [] color_space = CS_HWB -> "HWB"
      [] OTHER -> ""

\* The class blend coerces its argument color to, under each selector: the
\* CS_HWB branch calls HSL(color).
BlendColorClass(color_space) ==
    CASE color_space = CS_RGB -> "RGB"
      [] color_space = CS_HSL -> "HSL"
      [] OTHER -> "HSL"

\* What a finished or failed blend leaves: the exception ("" for none) and
\* the value of self at that point.
Left(e, self) == [err |-> e, val |-> self]

\* The first channel statement of each branch of blend.
blend_first(this, color, cls, factor, workaround) ==
    IF cls = "RGB"
    THEN set_c(this, 1, rgb_blend_channel(this.c1, color.c1, factor))
    ELSE set_c(this, 1, hue_blend_channel(this.c1, color.c1, factor, workaround))

\* The two statements after it: g then b, l then s, w then b.
blend_rest(this, color, cls, factor) ==
    CASE cls = "RGB" ->
         set_c(set_c(this, 2, rgb_blend_channel(this.c2, color.c2, factor)),
               3, rgb_blend_channel(this.c3, color.c3, factor))
      [] cls = "HSL" ->
         set_c(set_c(this, 3, percent_blend_channel(this.c3, color.c3, factor)),
               2, percent_blend_channel(this.c2, color.c2, factor))
      [] OTHER ->
         set_c(set_c(this, 2, percent_blend_channel(this.c2, color.c2, factor)),
               3, percent_blend_channel(this.c3, color.c3, factor))

\* if alpha: this.a = ...
blend_alpha(this, color, factor, with_alpha) ==
    IF with_alpha THEN set_a(this, rgb_blend_channel(this.a, color.a, factor))
    ELSE this

\* self.update_from(this) has returned or raised back.
blend_back(self, back) ==
    IF back.err # "" THEN Left(back.err, self) ELSE Left("", back.val)

\* The last statement of blend: this is self when aliased.
blend_update(self, this, aliased) ==
    IF aliased THEN Left("", this)
    ELSE blend_back(self, update_from(self, this, FALSE))

\* The channel statements of the selected branch.  this is self itself when
\* self is already of the selected class (aliased), so that an exception
\* raised after the first channel is set leaves self changed.
blend_branch(self, this, color, cls, aliased, factor, with_alpha, workaround) ==
    IF cls = "HWB" /\ color.cls # "HWB"
    THEN \* color.w: an HSL object has no attribute w
         Left("AttributeError",
              IF aliased THEN blend_first(this, color, cls, factor, workaround)
              ELSE self)
    ELSE blend_update(self,
                      blend_alpha(blend_rest(blend_first(this, color, cls, factor,
                                                         workaround),
                                             color, cls, factor),
                                  color, factor, with_alpha),
                      aliased)

\* this and color have been built, or building one of them has raised.
blend_coerced(self, this, color, cls, factor, with_alpha, workaround) ==
    IF color.err # "" THEN Left(color.err, self)
    ELSE IF this.err # "" THEN Left(this.err, self)
    ELSE blend_branch(self, this.val, color.val, cls, isinstance(self, cls),
                      factor, with_alpha, workaround)

\* The statements of blend after the blend factor is known.
BlendBody(self, color, factor, with_alpha, color_space, workaround) ==
    IF SelectorClass(color_space) = "" THEN Left("ValueError", self)
    ELSE blend_coerced(self,
                       IF ~isinstance(self, SelectorClass(color_space))
                       THEN New(SelectorClass(color_space), self) ELSE Ok(self),
                       IF ~isinstance(color, SelectorClass(color_space))
                       THEN New(BlendColorClass(color_space), color) ELSE Ok(color),
                       SelectorClass(color_space), factor, with_alpha, workaround)

\* The blend factor of the first statement, which reads SCALE_PERCENT as a
\* global of __init__.py.
BlendFactor(percent) ==
    IF "SCALE_PERCENT" \notin InitNames THEN Raise("NameError")
    ELSE Ok(clamp(QMul(clamp(percent, Zero, QInt(100)), SCALE_PERCENT), Zero, One))

\* The rest of blend, once the first statement has returned or raised.
blend_factor(self, color, factor, with_alpha, color_space, workaround) ==
    IF factor.err # "" THEN Left(factor.err, self)
    ELSE BlendBody(self, color, factor.val, with_alpha, color_space, workaround)

\* A blend that scales by util.SCALE_PERCENT and takes a selector that is
\* none of the three for CS_RGB.
blend_any_selector(self, color, percent, with_alpha, color_space, workaround) ==
    BlendBody(self, color,
              clamp(QMul(clamp(percent, Zero, QInt(100)), SCALE_PERCENT), Zero, One),
              with_alpha,
              IF SelectorClass(color_space) = "" THEN CS_RGB ELSE color_space,
              workaround)

blend(self, color, percent, with_alpha, color_space, workaround) ==
    blend_factor(self, color, BlendFactor(percent), with_alpha, color_space, workaround)

(***************************************************************************)
(* The state: the colour objects a program holds, and a record of the last *)
(* call made on one of them.                                               *)
(***************************************************************************)
VARIABLES
    colors,          \* the colour objects, by name
    old,             \* colors before the last call
    call,            \* the last call: [op, self, other, arg, percent, factor, mode]
    err,             \* the exception the last call raised, "" for none
    HSL_WORKAROUND,  \* util.HSL_WORKAROUND, fixed by the host's version
    steps,           \* the number of calls made
    text,            \* the text last given to css_color
    parsed,          \* what css_color returned for it
    applied          \* the last function called on its own: [fn, args, res]

vars == <<colors, old, call, err, HSL_WORKAROUND, steps, text, parsed, applied>>

\* The longest sequence of calls explored.
MaxSteps == 1

\* The objects of the program.  The calls explored are made on x, with x,
\* y or z as their colour argument.
Obj == {"x", "y", "z"}

Self == {"x"}

\* The colours the objects start as: of each class, translucent and
\* opaque, a grey with a hue, a hue of 1.0 and the HWB black.
Palette ==
    {Color("RGB", One, Zero, Zero, Half),
     Color("RGB", Half, Q(1, 4), Q(3, 4), One),
     Color("HSL", Half, Zero, Half, One),
     Color("HSL", One, One, Half, Half),
     Color("HWB", Zero, Zero, One, One),
     Color("HWB", Q(3, 4), Q(1, 4), Q(1, 4), Half),
     Color("HSL", Q(1, 3), One, Half, Half)}

\* The values handed to the setters, and the factors and modes of the
\* channel mutators.
SetValues == {Q(-1, 2), Q(1, 4), Q(3, 2)}

Factors == {Half, One, Q(3, 2)}

Modes == {OP_NULL, OP_SCALE, OP_ADD, OP_SUB}

Degrees == {-370, -10, 0, 180, 720}

Percents == {50, 150}

\* The selectors handed to blend: the three of util.py and one that is
\* none of them.
Selectors == {CS_RGB, CS_HSL, CS_HWB, CS_HWB + 1}

NoCall ==
    [op |-> "", self |-> "", other |-> "", arg |-> 0, percent |-> 0,
     factor |-> Zero, mode |-> 0]

NoApply == [fn |-> "", args |-> <<>>, res |-> [err |-> "", val |-> <<>>]]

NoParse == [err |-> "", val |-> None]

Init ==
    /\ colors \in [Obj -> Palette]
    /\ colors["z"] = Color("HSL", Q(1, 3), One, Half, Half)
    /\ old = colors
    /\ call = NoCall
    /\ err = ""
    /\ HSL_WORKAROUND \in BOOLEAN
    /\ steps = 0
    /\ text = NoText
    /\ parsed = NoParse
    /\ applied = NoApply

\* The model's integers are 32 bits wide.  A call is explored when the
\* channels of the colours it reads are fractions with a denominator of at
\* most DenLimit, which keeps every product of the call within that width.
DenLimit == 1000

SepiaDens == {1, 2}

Exact(c) == \A i \in 1..4 : Chan(c, i)[2] <= DenLimit

Explored(x, other) ==
    /\ steps < MaxSteps
    /\ Exact(colors[x])
    /\ other \in Obj => Exact(colors[other])

\* A call op on object x that returned or raised r: self takes the value
\* r.val when the call returned.
CalledWith(op, x, other, arg, factor, mode, r) ==
    /\ Explored(x, other)
    /\ old' = colors
    /\ colors' = IF r.err = "" THEN [colors EXCEPT ![x] = r.val] ELSE colors
    /\ err' = r.err
    /\ call' = [op |-> op, self |-> x, other |-> other, arg |-> arg, percent |-> 0,
                 factor |-> factor, mode |-> mode]
    /\ steps' = steps + 1
    /\ UNCHANGED <<HSL_WORKAROUND, text, parsed, applied>>

\* A call that takes no factor and no mode.
Called(op, x, other, arg, r) == CalledWith(op, x, other, arg, Zero, 0, r)

\* c.r = v and the other property setters (i = 4: c.a = v).
SetChannel(x, i, v) ==
    Called("set", x, "", i, Ok(set_c(colors[x], i, v)))

\* red, green, blue, saturation, lightness, whiteness, blackness: the
\* methods the class of x has.
ChannelOp(x, i, factor, op) ==
    /\ i \in (IF colors[x].cls = "RGB" THEN {1, 2, 3} ELSE {2, 3})
    /\ CalledWith("channel", x, "", i, factor, op, channel_op(colors[x], i, factor, op))

Alpha(x, factor, op) ==
    CalledWith("alpha", x, "", 4, factor, op, alpha(colors[x], factor, op))

Hue(x, deg) ==
    /\ colors[x].cls \in {"HSL", "HWB"}
    /\ Called("hue", x, "", deg, hue(colors[x], QInt(deg)))

\* update_from with the copy made in the other direction: obj takes the
\* channels of self.
UpdateFromReversed(x, y) ==
    /\ Explored(x, y)
    /\ old' = colors
    /\ colors' = IF update_from(colors[y], colors[x], x = y).err = ""
                 THEN [colors EXCEPT ![y] = update_from(colors[y], colors[x], x = y).val]
                 ELSE colors
    /\ err' = update_from(colors[y], colors[x], x = y).err
    /\ call' = [op |-> "update_from", self |-> x, other |-> y, arg |-> 0,
                 percent |-> 0, factor |-> Zero, mode |-> 0]
    /\ steps' = steps + 1
    /\ UNCHANGED <<HSL_WORKAROUND, text, parsed, applied>>

UpdateFrom(x, y) ==
    Called("update_from", x, y, 0, update_from(colors[x], colors[y], x = y))

ApplyAlpha(x, y) ==
    Called("apply_alpha", x, y, 0, apply_alpha(colors[x], colors[y]))

ApplyAlphaDefault(x) ==
    Called("apply_alpha", x, "None", 0, apply_alpha(colors[x], NoColor))

\* blend on x has left r: it may raise after it has changed self.
BlendCalled(x, y, percent, color_space, r) ==
    /\ Explored(x, y)
    /\ old' = colors
    /\ colors' = [colors EXCEPT ![x] = r.val]
    /\ err' = r.err
    /\ call' = [op |-> "blend", self |-> x, other |-> y, arg |-> color_space,
                 percent |-> percent, factor |-> Zero, mode |-> 0]
    /\ steps' = steps + 1
    /\ UNCHANGED <<HSL_WORKAROUND, text, parsed, applied>>

Blend(x, y, percent, with_alpha, color_space) ==
    BlendCalled(x, y, percent, color_space,
                blend(colors[x], colors[y], QInt(percent), with_alpha, color_space,
                      HSL_WORKAROUND))

Colorize(x, deg) == Called("colorize", x, "", deg, colorize(colors[x], QInt(deg)))

Contrast(x, factor) ==
    CalledWith("contrast", x, "", 0, factor, 0, contrast(colors[x], factor))

Invert(x) == Called("invert", x, "", 0, invert(colors[x]))

Grayscale(x) == Called("grayscale", x, "", 0, grayscale(colors[x]))

\* The RGB channels of rgb = RGB(self) are whole numbers or halves.
SepiaExact(rgb) ==
    rgb.err = "" => \A i \in 1..3 : Chan(rgb.val, i)[2] \in SepiaDens

\* sepia multiplies three times by a fraction over 1000: it is explored
\* from the colours whose RGB channels are whole numbers or halves (and
\* from those whose conversion to RGB raises).
Sepia(x) ==
    /\ Exact(colors[x])
    /\ SepiaExact(New("RGB", colors[x]))
    /\ Called("sepia", x, "", 0, sepia(colors[x]))

Brightness(x, factor) ==
    CalledWith("brightness", x, "", 0, factor, 0, brightness(colors[x], factor))

Next ==
    \/ \E x \in Self, i \in 1..4, v \in SetValues : SetChannel(x, i, v)
    \/ \E x \in Self, i \in 1..3, f \in Factors, op \in Modes : ChannelOp(x, i, f, op)
    \/ \E x \in Self, f \in Factors, op \in Modes : Alpha(x, f, op)
    \/ \E x \in Self, deg \in Degrees : Hue(x, deg)
    \/ \E x \in Self, y \in Obj : UpdateFrom(x, y)
    \/ \E x \in Self, y \in Obj : ApplyAlpha(x, y)
    \/ \E x \in Self : ApplyAlphaDefault(x)
    \/ \E x \in Self, y \in Obj, p \in Percents, al \in BOOLEAN, sel \in Selectors :
          Blend(x, y, p, al, sel)
    \/ \E x \in Self, deg \in Degrees : Colorize(x, deg)
    \/ \E x \in Self, f \in Factors : Contrast(x, f)
    \/ \E x \in Self : Invert(x)
    \/ \E x \in Self : Grayscale(x)
    \/ \E x \in Self : Sepia(x)
    \/ \E x \in Self, f \in Factors : Brightness(x, f)

Spec == Init /\ [][Next]_vars

(***************************************************************************)
(* css_color, on its own: one text is parsed.                              *)
(***************************************************************************)
FuncNames == {"rgb", "rgba", "hsl", "hsla", "hwb", "hwba"}

Separators == {"space", "comma"}

\* Channel lists: numbers, percentages, angles with each unit, with and
\* without an alpha, too short, and mixed.
TokLists ==
    {<<Num(QInt(255)), Num(Zero), Num(Zero)>>,
     <<Num(QInt(255)), Num(Zero), Num(Zero), Num(Half)>>,
     <<Pct(QInt(100)), Pct(Zero), Pct(Zero), Pct(QInt(50))>>,
     <<Num(QInt(255)), Pct(Zero), Num(Zero)>>,
     <<Num(QInt(120)), Pct(QInt(100)), Pct(QInt(50))>>,
     <<Ang(QInt(120), "deg"), Pct(QInt(100)), Pct(QInt(50)), Pct(QInt(50))>>,
     <<Ang(Half, "turn"), Pct(QInt(100)), Pct(QInt(50))>>,
     <<Ang(QInt(200), "grad"), Pct(QInt(100)), Pct(QInt(50)), Num(Half)>>,
     <<Ang(One, "rad"), Pct(QInt(100)), Pct(QInt(50))>>,
     <<Num(Zero), Pct(Zero)>>}

HexTexts ==
    {Hex(<<15, 15, 0, 0, 0, 0>>), Hex(<<15, 0, 0>>), Hex(<<15, 0, 0, 8>>),
     Hex(<<15, 15, 0, 0, 0, 0, 8, 0>>), Hex(<<15, 15, 0, 0, 0>>)}

WordTexts == {Word("red"), Word("black"), Word("white"), Word("nocolor")}

Texts ==
    {Func(n, sep, toks) : n \in FuncNames, sep \in Separators, toks \in TokLists}
        \cup HexTexts \cup WordTexts

InitParse ==
    /\ colors = [o \in Obj |-> Color("RGB", Zero, Zero, Zero, One)]
    /\ old = colors
    /\ call = NoCall
    /\ err = ""
    /\ HSL_WORKAROUND = FALSE
    /\ steps = 0
    /\ text = NoText
    /\ parsed = NoParse
    /\ applied = NoApply

\* css_color(t)
Parse(t) ==
    /\ text.kind = "none"
    /\ text' = t
    /\ parsed' = css_color(t)
    /\ UNCHANGED <<colors, old, call, err, HSL_WORKAROUND, steps, applied>>

NextParse == \E t \in Texts : Parse(t)

SpecParse == InitParse /\ [][NextParse]_vars

(***************************************************************************)
(* The functions of the package applied once to enumerated arguments:      *)
(* to_css of an RGB colour, the construction of an HSL or HWB colour from   *)
(* a colour of the other class, util.hwb_to_rgb and                        *)
(* util.hue_blend_channel.  The record applied holds the function, its     *)
(* arguments and what it returned or raised.                               *)
(***************************************************************************)
CssColors ==
    {Color("RGB", One, Zero, Zero, One),
     Color("RGB", One, Zero, Zero, Half),
     Color("RGB", One, Q(2, 5), Zero, Q(1, 5)),
     Color("RGB", Half, Q(1, 4), Q(3, 4), One),
     Color("RGB", Zero, Zero, Zero, One)}

ConvColors ==
    {Color("HWB", Q(3, 4), Q(1, 4), Q(1, 4), Half),
     Color("HWB", Zero, Half, Q(1, 4), One),
     Color("HWB", Zero, Zero, One, One),
     Color("HSL", Q(3, 4), Q(1, 4), Q(1, 4), Half),
     Color("HSL", Half, Zero, Half, One),
     Color("HSL", Q(1, 3), One, Half, Half)}

Grid == {Zero, Q(1, 4), Half, Q(3, 4), One}

BlendFactors == {Zero, Q(1, 4), Half, One}

InitFn ==
    /\ colors = [o \in Obj |-> Color("RGB", Zero, Zero, Zero, One)]
    /\ old = colors
    /\ call = NoCall
    /\ err = ""
    /\ HSL_WORKAROUND \in BOOLEAN
    /\ steps = 0
    /\ text = NoText
    /\ parsed = NoParse
    /\ applied = NoApply

\* fn(args) has returned or raised res.
Applied(fn, args, res) ==
    /\ applied.fn = ""
    /\ applied' = [fn |-> fn, args |-> args, res |-> res]
    /\ UNCHANGED <<colors, old, call, err, HSL_WORKAROUND, steps, text, parsed>>

ApplyToCss(c, al, prefer_alpha, prefer_name, prefer_hex, compress, comma) ==
    Applied("to_css", <<c, al, prefer_alpha, prefer_name, prefer_hex, compress, comma>>,
            to_css(c, al, prefer_alpha, prefer_name, prefer_hex, compress, comma))

\* HSL(c), HWB(c)
ApplyNew(cls, c) == Applied("New", <<cls, c>>, New(cls, c))

ApplyHwbToRgb(h, w, b) == Applied("hwb_to_rgb", <<h, w, b>>, hwb_to_rgb(h, w, b))

ApplyHueBlend(c1, c2, f) ==
    Applied("hue_blend_channel", <<c1, c2, f>>,
            Ok(hue_blend_channel(c1, c2, f, HSL_WORKAROUND)))

NextFn ==
    \/ \E c \in CssColors, al \in BOOLEAN, pa \in BOOLEAN, pn \in BOOLEAN,
          ph \in BOOLEAN, cp \in BOOLEAN, cm \in BOOLEAN :
          ApplyToCss(c, al, pa, pn, ph, cp, cm)
    \/ \E cls \in {"HSL", "HWB"}, c \in ConvColors : ApplyNew(cls, c)
    \/ \E h \in Grid, w \in Grid, b \in Grid : ApplyHwbToRgb(h, w, b)
    \/ \E c1 \in Grid, c2 \in Grid, f \in BlendFactors : ApplyHueBlend(c1, c2, f)

SpecFn == InitFn /\ [][NextFn]_vars

(***************************************************************************)
(* The properties.                                                         *)
(***************************************************************************)
ValidSelectors == {CS_RGB, CS_HSL, CS_HWB}

Primary(c) == <<c.c1, c.c2, c.c3>>

\* C1: after any sequence of public mutations, the three primary channels
\* and the alpha of every colour lie in the closed interval [0, 1].
ChannelsInUnit ==
    \A o \in Obj : \A i \in 1..4 : InUnit(Chan(colors[o], i))

\* A setter has been given a value above 1 and has stored 1.
ChannelsInUnitWitness ==
    /\ call.op = "set"
    /\ Chan(old[call.self], call.arg) # One
    /\ Chan(colors[call.self], call.arg) = One

\* C2: update_from(Y), apply_alpha(Y) and blend(Y, ...) called on X leave
\* the four channels of a distinct Y as they were, and change no colour
\* that is neither X nor Y.
OnlyTargetChanges ==
    (call.op \in {"update_from", "apply_alpha", "blend"} /\ call.other \in Obj
        /\ call.other # call.self)
    => /\ Channels(colors[call.other]) = Channels(old[call.other])
       /\ \A o \in Obj \ {call.self} : colors[o] = old[o]

\* update_from has copied a distinct colour of another class into x.
OnlyTargetChangesWitness ==
    /\ call.op = "update_from"
    /\ call.other \in Obj \ {call.self}
    /\ err = ""
    /\ old[call.other].cls # old[call.self].cls
    /\ colors[call.self] # old[call.self]

\* C3: update_from(source) changes nothing when source is the destination;
\* otherwise the destination ends with the channels of source converted
\* to the destination's class (unconverted for the same class), with its
\* class unchanged and with source's alpha.
UpdateFromPost ==
    call.op = "update_from" =>
        IF call.other = call.self THEN err = "" /\ colors = old
        ELSE /\ err = ""
             /\ colors[call.self].cls = old[call.self].cls
             /\ colors[call.self].a = old[call.other].a
             /\ Primary(colors[call.self]) =
                    Convert(old[call.other].cls, old[call.self].cls,
                            old[call.other].c1, old[call.other].c2,
                            old[call.other].c3).val

\* C4: css_color returns a colour of the first of RGB, HSL, HWB and the
\* named colours (read as RGB) that matches the text, and raises the
\* invalid-colour error (ValueError) exactly when none matches.
ParsePost ==
    text.kind # "none" =>
        IF RGB_CSS_MATCH(text) THEN parsed.err = "" /\ parsed.val.cls = "RGB"
        ELSE IF HSL_CSS_MATCH(text) THEN parsed.err = "" /\ parsed.val.cls = "HSL"
        ELSE IF HWB_CSS_MATCH(text) THEN parsed.err = "" /\ parsed.val.cls = "HWB"
        ELSE IF name2hex(text).kind # "none"
        THEN parsed.err = "" /\ parsed.val.cls = "RGB"
        ELSE parsed.err = "ValueError"

\* C5: apply_alpha(background) leaves the subject with alpha 1; a subject of
\* alpha 1 keeps its primary channels, and one of a lower alpha gets
\* clamp(|c_fg*a_fg + c_bg*a_bg*(1-a_fg)|, 0, 1) in each, from its old
\* channels and the background converted to its class; a second
\* apply_alpha changes nothing more.
ApplyAlphaPost ==
    (call.op = "apply_alpha" /\ call.other \in Obj) =>
        /\ err = ""
        /\ colors[call.self].a = One
        /\ old[call.self].a = One =>
               Primary(colors[call.self]) = Primary(old[call.self])
        /\ QLt(old[call.self].a, One) =>
               Primary(colors[call.self]) =
                   Primary(apply_alpha_mix(old[call.self],
                        IF call.other = call.self THEN old[call.self]
                        ELSE New(old[call.self].cls, old[call.other]).val))
        /\ apply_alpha(colors[call.self], colors[call.other]) = Ok(colors[call.self])

\* C6: the background apply_alpha uses when it is given none is an opaque
\* black of the subject's class: its alpha is 1 and it converts to the RGB
\* (0, 0, 0).
DefaultBackgroundIsBlack ==
    (call.op = "apply_alpha" /\ call.other = "None") =>
        /\ NewFromText(old[call.self].cls, DEF_BG(old[call.self].cls)).err = ""
        /\ NewFromText(old[call.self].cls, DEF_BG(old[call.self].cls)).val.a = One
        /\ Then(NewFromText(old[call.self].cls, DEF_BG(old[call.self].cls)),
                LAMBDA bg : Then(New("RGB", bg), LAMBDA rgb : Ok(Primary(rgb))))
               = Ok(<<Zero, Zero, Zero>>)

\* C7: blend(a, a, percent) with a percent in [0, 100], any of the three
\* selectors and either alpha flag returns and leaves a with the four
\* channels it had.
SelfBlendIsIdentity ==
    (call.op = "blend" /\ call.other = call.self /\ call.arg \in ValidSelectors
        /\ call.percent \in 0..100)
    => /\ err = ""
       /\ Channels(colors[call.self]) = Channels(old[call.self])

\* C8: under each of the three selectors blend coerces the target and the
\* source to the class of the selected space, so that the channels it
\* combines are of that one space.
BlendCoercesBoth ==
    (call.op = "blend" /\ call.arg \in ValidSelectors)
    => BlendColorClass(call.arg) = SelectorClass(call.arg)

HueSum == QAdd(old[call.self].c1, QMul(QInt(call.arg), HUE_SCALE))

\* C10, as stated: hue(deg) leaves the hue equal to (h + deg/360) modulo 1,
\* in [0, 1), with the other channels unchanged, and 0.0 rotated by -10
\* gives 350/360.
HueIsSumModOne ==
    call.op = "hue" =>
        /\ err = ""
        /\ colors[call.self].c1 = QMod1(HueSum)
        /\ QLe(Zero, colors[call.self].c1) /\ QLt(colors[call.self].c1, One)
        /\ colors[call.self].c2 = old[call.self].c2
        /\ colors[call.self].c3 = old[call.self].c3
        /\ colors[call.self].a = old[call.self].a
        /\ (old[call.self].c1 = Zero /\ call.arg = -10) =>
               colors[call.self].c1 = Q(350, 360)

\* C10, amended: hue(deg) returns and leaves the hue in the closed [0, 1]:
\* it is 1 when h + deg/360 is a positive whole number and (h + deg/360)
\* modulo 1 otherwise; the other channels are unchanged, and 0.0 rotated by
\* -10 gives 350/360.
HueIsSumWrapped ==
    call.op = "hue" =>
        /\ err = ""
        /\ InUnit(colors[call.self].c1)
        /\ colors[call.self].c1 =
               IF HueSum[2] = 1 /\ HueSum[1] >= 1 THEN One ELSE QMod1(HueSum)
        /\ colors[call.self].c2 = old[call.self].c2
        /\ colors[call.self].c3 = old[call.self].c3
        /\ colors[call.self].a = old[call.self].a
        /\ (old[call.self].c1 = Zero /\ call.arg = -10) =>
               colors[call.self].c1 = Q(350, 360)

\* hue has wrapped a sum above 1 down to the hue 1.
HueIsSumWrappedWitness ==
    /\ call.op = "hue"
    /\ QLt(One, HueSum)
    /\ colors[call.self].c1 = One

\* C11: saturation, lightness, whiteness, blackness, red, green, blue and
\* alpha, called on a channel of value c with a factor, return and leave
\* in it clamp(c + factor - 1, 0, 1) in mode SCALE, clamp(c + c*factor, 0, 1)
\* in ADD, clamp(c - c*factor, 0, 1) in SUB and clamp(factor, 0, 1) in any
\* other mode, and change no other channel.
ChannelContract ==
    call.op \in {"channel", "alpha"} =>
        LET c == Chan(old[call.self], call.arg)
            value == CASE call.mode = OP_SCALE -> QSub(QAdd(c, call.factor), One)
                       [] call.mode = OP_ADD -> QAdd(c, QMul(c, call.factor))
                       [] call.mode = OP_SUB -> QSub(c, QMul(c, call.factor))
                       [] OTHER -> call.factor
        IN  /\ err = ""
            /\ Chan(colors[call.self], call.arg) = QMax(QMin(value, One), Zero)
            /\ \A j \in (1..4) \ {call.arg} :
                   Chan(colors[call.self], j) = Chan(old[call.self], j)

\* C12: brightness(factor) returns, with target = clamp(L + factor - 1, 0, 1)
\* for the luminance L of the colour as a fraction of 0..1: the colour it
\* leaves is white exactly when target is 1 and black exactly when target is
\* 0, and with factor 1 and 0 < L < 1 its RGB channels are those it had.
BrightnessPost ==
    call.op = "brightness" =>
        /\ err = ""
        /\ LET before == New("RGB", old[call.self]).val
               after == New("RGB", colors[call.self]).val
               L == QDiv(luminance_sum(before), QInt(255))
               target == clamp(QSub(QAdd(L, call.factor), One), Zero, One)
           IN  /\ Primary(after) = <<One, One, One>> <=> target = One
               /\ Primary(after) = <<Zero, Zero, Zero>> <=> target = Zero
               /\ (call.factor = One /\ QLt(Zero, L) /\ QLt(L, One)) =>
                      Primary(after) = Primary(before)

\* C13: invert() returns and leaves every RGB channel v of the colour at its
\* complement (255 - v on the scale 0..255, 1 - v as a fraction), with the
\* alpha and the class the colour had.
InvertPost ==
    call.op = "invert" =>
        /\ err = ""
        /\ colors[call.self].cls = old[call.self].cls
        /\ colors[call.self].a = old[call.self].a
        /\ \A i \in 1..3 :
               Chan(New("RGB", colors[call.self]).val, i) =
                   QSub(One, Chan(New("RGB", old[call.self]).val, i))

\* C14: to_css of an RGB colour with prefer_hex and compress (and without
\* prefer_name) returns the hex text of the channels it shows, one digit a
\* channel exactly when the two hex digits of every channel shown are
\* equal and two digits a channel otherwise; RGB(1, 0, 0, 1) gives "#f00".
ToCssCompress ==
    (applied.fn = "to_css" /\ applied.args[5] /\ applied.args[6] /\ ~applied.args[4]) =>
        LET c == applied.args[1]
            with_a == applied.args[2] /\ (applied.args[3] \/ QLt(c.a, One))
            n == [i \in 1..4 |-> round_int(QMul(Chan(c, i), QInt(255)))]
            doubled == \A i \in (IF with_a THEN 1..4 ELSE 1..3) : n[i] \div 16 = n[i] % 16
            Lower == <<"0", "1", "2", "3", "4", "5", "6", "7", "8", "9",
                       "a", "b", "c", "d", "e", "f">>
            digits(i, T) == IF doubled THEN <<T[(n[i] % 16) + 1]>>
                            ELSE <<T[(n[i] \div 16) + 1], T[(n[i] % 16) + 1]>>
            hex(T) == <<"#">> \o digits(1, T) \o digits(2, T) \o digits(3, T)
                             \o (IF with_a THEN digits(4, T) ELSE <<>>)
        IN  /\ applied.res.err = ""
            /\ applied.res.val \in {hex(Lower), hex(HexChars)}
            /\ (c = Color("RGB", One, Zero, Zero, One) /\ ~with_a) =>
                   applied.res.val = <<"#", "f", "0", "0">>

\* C15: HSL(c) of an HWB colour c is rgb_to_hsl(hwb_to_rgb(c)) and HWB(c) of
\* an HSL colour c is rgb_to_hwb(hsl_to_rgb(c)), with the alpha of c.
ConvertThroughRGB ==
    (applied.fn = "New" /\ applied.args[1] # applied.args[2].cls) =>
        LET c == applied.args[2]
            through == IF c.cls = "HWB"
                       THEN Then(hwb_to_rgb(c.c1, c.c2, c.c3),
                                 LAMBDA rgb : rgb_to_hsl(rgb[1], rgb[2], rgb[3]))
                       ELSE Then(hsl_to_rgb(c.c1, c.c2, c.c3),
                                 LAMBDA rgb : rgb_to_hwb(rgb[1], rgb[2], rgb[3]))
        IN  /\ applied.res.err = ""
            /\ applied.res.val.cls = applied.args[1]
            /\ applied.res.val.a = c.a
            /\ Primary(applied.res.val) = through.val

\* C16: hwb_to_rgb(h, w, b) returns for all h, w, b of 0..1, its three results
\* are of 0..1, and with b = 1 the result is black.
HwbToRgbTotal ==
    applied.fn = "hwb_to_rgb" =>
        /\ applied.res.err = ""
        /\ \A i \in 1..3 : InUnit(applied.res.val[i])
        /\ applied.args[3] = One => applied.res.val = <<Zero, Zero, Zero>>

\* C17 as stated: hue_blend_channel(h1, h2, f) raises the smaller hue by 360
\* degrees when the two are more than 180 degrees apart, interpolates
\* h1*f + h2*(1 - f) (f flipped to 1 - f under HSL_WORKAROUND), wraps the
\* result into [0, 360) and returns it as a fraction of [0, 1), which lies on
\* the shorter arc between the two hues.
HueBlendHalfOpen ==
    applied.fn = "hue_blend_channel" =>
        LET h1 == QMul(applied.args[1], QInt(360))
            h2 == QMul(applied.args[2], QInt(360))
            f == IF HSL_WORKAROUND THEN QSub(One, applied.args[3]) ELSE applied.args[3]
            far == QLt(QInt(180), QAbs(QSub(h1, h2)))
            a1 == IF far /\ QLt(h1, h2) THEN QAdd(h1, QInt(360)) ELSE h1
            a2 == IF far /\ QLt(h2, h1) THEN QAdd(h2, QInt(360)) ELSE h2
            v == QAdd(QMul(a1, f), QMul(a2, QSub(One, f)))
            wrapped == IF QLe(QInt(360), v) THEN QSub(v, QInt(360)) ELSE v
            Dist(x, y) == IF QLt(QInt(180), QAbs(QSub(x, y)))
                          THEN QSub(QInt(360), QAbs(QSub(x, y)))
                          ELSE QAbs(QSub(x, y))
        IN  /\ applied.res.err = ""
            /\ applied.res.val = QMul(wrapped, HUE_SCALE)
            /\ QLe(Zero, applied.res.val) /\ QLt(applied.res.val, One)
            /\ QAdd(Dist(wrapped, h1), Dist(wrapped, h2)) = Dist(h1, h2)

\* C17, amended: as above, but only a result above 360 degrees is reduced:
\* 360 itself is kept, and the fraction returned is of [0, 1], 1 included.
HueBlendShorterArc ==
    applied.fn = "hue_blend_channel" =>
        LET h1 == QMul(applied.args[1], QInt(360))
            h2 == QMul(applied.args[2], QInt(360))
            f == IF HSL_WORKAROUND THEN QSub(One, applied.args[3]) ELSE applied.args[3]
            far == QLt(QInt(180), QAbs(QSub(h1, h2)))
            a1 == IF far /\ QLt(h1, h2) THEN QAdd(h1, QInt(360)) ELSE h1
            a2 == IF far /\ QLt(h2, h1) THEN QAdd(h2, QInt(360)) ELSE h2
            v == QAdd(QMul(a1, f), QMul(a2, QSub(One, f)))
            wrapped == IF QLt(QInt(360), v) THEN QSub(v, QInt(360)) ELSE v
            Dist(x, y) == IF QLt(QInt(180), QAbs(QSub(x, y)))
                          THEN QSub(QInt(360), QAbs(QSub(x, y)))
                          ELSE QAbs(QSub(x, y))
        IN  /\ applied.res.err = ""
            /\ applied.res.val = QMul(wrapped, HUE_SCALE)
            /\ QLe(Zero, applied.res.val) /\ QLe(applied.res.val, One)
            /\ QAdd(Dist(wrapped, h1), Dist(wrapped, h2)) = Dist(h1, h2)

\* The hues 90 and 360 degrees are 270 degrees apart: the smaller is raised to
\* 450, the blend at 1/2 is 405 degrees and is wrapped to 45.
HueBlendShorterArcWitness ==
    /\ applied.fn = "hue_blend_channel"
    /\ ~HSL_WORKAROUND
    /\ applied.args = <<Q(1, 4), One, Half>>
    /\ applied.res.val = Q(1, 8)

\* C18: a brightness call whose target is neither 0 nor 1 returns, and the
\* RGB channels it leaves are those of the three steps over R, G, B in
\* this order on the scale 0..255, from the channels with pts added: a
\* channel below 0 or above 255 is clipped and leaves the pool, and its
\* overage is divided evenly among the channels still in the pool.
BrightnessDistributes ==
    (/\ call.op = "brightness"
     /\ New("RGB", old[call.self]).err = ""
     /\ LET L == QDiv(luminance_sum(New("RGB", old[call.self]).val), QInt(255))
        IN  /\ QLt(Zero, QSub(QAdd(L, call.factor), One))
            /\ QLt(QSub(QAdd(L, call.factor), One), One))
    =>
        /\ err = ""
        /\ LET rgb == New("RGB", old[call.self]).val
               L == QDiv(luminance_sum(rgb), QInt(255))
               pts == QSub(QSub(QAdd(L, call.factor), One), L)
               start == <<QMul(QInt(255), QAdd(rgb.c1, pts)),
                          QMul(QInt(255), QAdd(rgb.c2, pts)),
                          QMul(QInt(255), QAdd(rgb.c3, pts))>>
               left == brightness_loop(start).components
           IN  \A i \in 1..3 :
                   Chan(New("RGB", colors[call.self]).val, i) = QDiv(left[i], QInt(255))

====
